---- MODULE Spec2Model ----
(***************************************************************************)
(* Salsa mixer: the play / pause / mute / beat-indicator state machine of  *)
(* the two variants of the script (src/mixer.js, the synchronous           *)
(* togglePlayPause, and src/unnamed/part_000, the async togglePlayPause    *)
(* with the message box).                                                  *)
(*                                                                         *)
(* The audio engine (Tone.js) is an external collaborator.  It is modelled *)
(* by the interface the scripts use: a player handle has the fields        *)
(* isPlaying, volume and name, start() plays the buffer from its beginning *)
(* and pause() stops it; the transport has a state and a position that     *)
(* pause() freezes and start() resumes; the audio context is suspended     *)
(* until Tone.start() has resumed it, and the clock ticks only while the   *)
(* context runs.                                                           *)
(***************************************************************************)
EXTENDS Integers, Sequences, FiniteSets, TLC

\* ------------------------------------------------------------------ bounds
\* How many of the nine instruments of the registry the model loads.
NumInstruments == 2
\* How many togglePlayPause invocations may be suspended at `await Tone.start()`.
MaxPending == 2

\* ------------------------------------------------------- program constants
totalBeats == 8

AllInstruments ==
    << "Clave", "Conga", "Bass", "Piano", "Maracas", "Guiro", "Trumpet",
       "Trombone", "Vocals" >>

instruments == SubSeq(AllInstruments, 1, NumInstruments)

Names == { instruments[i] : i \in 1..Len(instruments) }

\* The `name` a player handle reports.  The scripts construct every player
\* from {url, loop, autostart, volume} and never assign a name, so the field
\* is the engine's own (its class name); it is not a key of instrumentStates.
PlayerNodeName == "Player"

Audible == "0"
Silent == "-Infinity"

\* The positions of the volume slider the model distinguishes.
VolumeLevels == {"-12", "0"}

VARIABLES
    variant,            \* "sync" (mixer.js) or "async" (part_000)
    pc,                 \* "script", "loading", "ready": progress of window.onload
    loadIdx,            \* index of the instrument whose player.loaded is awaited
    loadResult,         \* per instrument: "pending", "ok", "failed"
    players,            \* the players map: name -> player handle (loaded ones only)
    instrumentButtons,  \* the button map: name -> [disabled, classList]
    instrumentStates,   \* the state map: name -> BOOLEAN (true = audible)
    currentBeat,        \* let currentBeat
    beatCounter,        \* the closure counter of the beat callback
    beatLoop,           \* TRUE once the Tone.Loop is created and started
    beatIndicators,     \* beat number -> TRUE when the span carries 'current'
    transportState,     \* Tone.Transport.state
    transportPos,       \* transport position, in eighth notes within the cycle
    contextState,       \* Tone.context.state: "suspended", "resuming", "running"
    pending,            \* togglePlayPause invocations suspended at the await
    volumeSlider,       \* volumeSlider.value
    masterVolume        \* masterVolume.volume.value ("none" before it is created)

vars ==
    << variant, pc, loadIdx, loadResult, players, instrumentButtons,
       instrumentStates, currentBeat, beatCounter, beatLoop, beatIndicators,
       transportState, transportPos, contextState, pending, volumeSlider,
       masterVolume >>

\* ----------------------------------------------------------------- helpers
\* obj[key] = value on a JavaScript object.
Put(obj, key, value) ==
    [ k \in DOMAIN obj \cup {key} |-> IF k = key THEN value ELSE obj[k] ]

\* The truthiness of obj[key] for a map of booleans: a missing key is undefined.
Truthy(obj, key) == key \in DOMAIN obj /\ obj[key]

\* The three registries as one value.
Registries ==
    [ players |-> players,
      instrumentButtons |-> instrumentButtons,
      instrumentStates |-> instrumentStates ]

SetRegistries(r) ==
    /\ players' = r.players
    /\ instrumentButtons' = r.instrumentButtons
    /\ instrumentStates' = r.instrumentStates

\* --------------------------------------------------------- player handles
\* new Tone.Player({url, loop: true, autostart: false, volume: 0}): not
\* playing, audible.  startPos is the transport position at which the buffer
\* was last started from its beginning.
NewPlayer ==
    [ name |-> PlayerNodeName, isPlaying |-> FALSE, volume |-> Audible,
      startPos |-> 0 ]

\* player.start(): no offset is passed, so the loop plays from its beginning.
StartPlayer(p, pos) == [ p EXCEPT !.isPlaying = TRUE, !.startPos = pos ]

\* player.pause()
PausePlayer(p) == [ p EXCEPT !.isPlaying = FALSE ]

\* ------------------------------------------------------------ UI creation
\* createInstrumentButtons: one enabled button per instrument, class 'active'.
createInstrumentButtons ==
    [ n \in Names |-> [ disabled |-> FALSE, classList |-> {"active"} ] ]

\* createBeatIndicators: spans beat-1..beat-8, none 'current'.
createBeatIndicators == [ b \in 1..totalBeats |-> FALSE ]

\* An update that marks the new beat without clearing the previous one.
updateBeatDisplay_NoClear(ind, beat) == [ b \in DOMAIN ind |-> ind[b] \/ b = beat ]

\* updateBeatDisplay(beat): remove 'current' everywhere, add it to beat-<beat>
\* when that element exists.
updateBeatDisplay(ind, beat) == [ b \in DOMAIN ind |-> b = beat ]

\* The beat the callback displays for the closure counter (1-indexed).
\* A callback that displays the 0-indexed counter itself.
beatOf_ZeroIndexed(counter) == counter % totalBeats

beatOf(counter) == (counter % totalBeats) + 1

\* The closure counter after the callback.
nextBeatCounter(counter) == (counter + 1) % totalBeats

\* ---------------------------------------------------------------- loading
\* The try block after `await player.loaded` resolved.
loadSucceeded(r, n) ==
    [ r EXCEPT !.players = Put(@, n, NewPlayer),
               !.instrumentStates = Put(@, n, TRUE) ]

\* A catch block that records the failure but leaves the control enabled.
loadFailed_ButtonKept(r, n) ==
    [ r EXCEPT !.instrumentStates = Put(@, n, FALSE) ]

\* The catch block: the state is forced to false and the button disabled.
loadFailed(r, n) ==
    [ r EXCEPT !.instrumentStates = Put(@, n, FALSE),
               !.instrumentButtons =
                   IF n \in DOMAIN @
                   THEN [ @ EXCEPT ![n] =
                            [ disabled |-> TRUE,
                              classList |-> (@.classList \ {"active"})
                                  \cup {"opacity-50", "cursor-not-allowed"} ] ]
                   ELSE @ ]

\* A pass that marks every button active whatever its state.
setInitialButtonStates_AllActive(r) ==
    [ r EXCEPT
        !.instrumentButtons =
            [ n \in DOMAIN @ |->
                IF Truthy(r.instrumentStates, n)
                THEN [ @[n] EXCEPT !.classList = @ \cup {"active"} ]
                ELSE [ disabled |-> TRUE,
                       classList |-> @[n].classList
                           \cup {"active", "opacity-50", "cursor-not-allowed"} ] ],
        !.players =
            [ n \in DOMAIN @ |->
                IF n \notin DOMAIN r.instrumentButtons THEN @[n]
                ELSE IF Truthy(r.instrumentStates, n)
                     THEN [ @[n] EXCEPT !.volume = Audible ]
                     ELSE [ @[n] EXCEPT !.volume = Silent ] ] ]

\* The pass of window.onload after `await initializeAudio()`.
setInitialButtonStates(r) ==
    [ r EXCEPT
        !.instrumentButtons =
            [ n \in DOMAIN @ |->
                IF Truthy(r.instrumentStates, n)
                THEN [ @[n] EXCEPT !.classList = @ \cup {"active"} ]
                ELSE [ disabled |-> TRUE,
                       classList |-> (@[n].classList \ {"active"})
                           \cup {"opacity-50", "cursor-not-allowed"} ] ],
        !.players =
            [ n \in DOMAIN @ |->
                IF n \notin DOMAIN r.instrumentButtons THEN @[n]
                ELSE IF Truthy(r.instrumentStates, n)
                     THEN [ @[n] EXCEPT !.volume = Audible ]
                     ELSE [ @[n] EXCEPT !.volume = Silent ] ] ]

\* ------------------------------------------------------------------- mute
\* A toggle whose unmute branch forgets to restore the gain.
toggleInstrumentOn_GainKept(r, n) ==
    IF n \in DOMAIN r.players /\ ~r.instrumentButtons[n].disabled
    THEN LET audible == ~Truthy(r.instrumentStates, n) IN
         [ r EXCEPT
             !.instrumentStates = Put(@, n, audible),
             !.players[n].volume = IF audible THEN @ ELSE Silent,
             !.instrumentButtons[n].classList =
                 IF audible THEN @ \cup {"active"} ELSE @ \ {"active"} ]
    ELSE r

\* A toggle that also pauses the player it mutes.
toggleInstrumentOn_PausesMuted(r, n) ==
    IF n \in DOMAIN r.players /\ ~r.instrumentButtons[n].disabled
    THEN LET audible == ~Truthy(r.instrumentStates, n) IN
         [ r EXCEPT
             !.instrumentStates = Put(@, n, audible),
             !.players[n].volume = IF audible THEN Audible ELSE Silent,
             !.players[n].isPlaying = IF audible THEN @ ELSE FALSE,
             !.instrumentButtons[n].classList =
                 IF audible THEN @ \cup {"active"} ELSE @ \ {"active"} ]
    ELSE r

\* toggleInstrument(instrumentName) on the registries r.
toggleInstrumentOn(r, n) ==
    IF n \in DOMAIN r.players /\ ~r.instrumentButtons[n].disabled
    THEN LET audible == ~Truthy(r.instrumentStates, n) IN
         [ r EXCEPT
             !.instrumentStates = Put(@, n, audible),
             !.players[n].volume = IF audible THEN Audible ELSE Silent,
             !.instrumentButtons[n].classList =
                 IF audible THEN @ \cup {"active"} ELSE @ \ {"active"} ]
    ELSE r

\* -------------------------------------------------------------- transport
\* The condition under which the start branch calls player.start().
shouldStart(v, p, states) ==
    IF v = "sync"
    THEN ~p.isPlaying
    ELSE ~p.isPlaying /\ Truthy(states, p.name)

\* The forEach of the start branch.
startPlayers(v, pl, states, pos) ==
    [ n \in DOMAIN pl |->
        IF shouldStart(v, pl[n], states) THEN StartPlayer(pl[n], pos) ELSE pl[n] ]

\* A pause branch that pauses the audible players only.
pausePlayers_AudibleOnly(pl) ==
    [ n \in DOMAIN pl |->
        IF pl[n].isPlaying /\ pl[n].volume = Audible
        THEN PausePlayer(pl[n]) ELSE pl[n] ]

\* The forEach of the pause branch.
pausePlayers(pl) ==
    [ n \in DOMAIN pl |-> IF pl[n].isPlaying THEN PausePlayer(pl[n]) ELSE pl[n] ]

\* ------------------------------------------------------------------- Init
Init ==
    /\ variant \in {"sync", "async"}
    /\ pc = "script"
    /\ loadIdx = 1
    /\ loadResult = [ n \in Names |-> "pending" ]
    /\ players = << >>
    /\ instrumentButtons = << >>
    /\ instrumentStates = << >>
    /\ currentBeat = 0
    /\ beatCounter = 0
    /\ beatLoop = FALSE
    /\ beatIndicators = << >>
    /\ transportState = "stopped"
    /\ transportPos = 0
    /\ contextState = "suspended"
    /\ pending = 0
    /\ volumeSlider \in VolumeLevels
    /\ masterVolume = "none"

\* ---------------------------------------------------------------- actions
\* window.onload up to the first `await player.loaded`.
OnLoad ==
    /\ pc = "script"
    /\ instrumentButtons' = createInstrumentButtons
    /\ beatIndicators' = createBeatIndicators
    /\ masterVolume' = volumeSlider
    /\ pc' = "loading"
    /\ UNCHANGED << variant, loadIdx, loadResult, players, instrumentStates,
                    currentBeat, beatCounter, beatLoop, transportState,
                    transportPos, contextState, pending, volumeSlider >>

\* player.loaded of the awaited instrument settles (ok: resolved, ~ok:
\* rejected).  After the last instrument the rest of initializeAudio and the
\* rest of window.onload run in the same turn of the event loop.
LoadSettled(ok) ==
    /\ pc = "loading"
    /\ LET n == instruments[loadIdx]
           r == IF ok THEN loadSucceeded(Registries, n)
                      ELSE loadFailed(Registries, n)
       IN /\ loadResult' = [ loadResult EXCEPT ![n] = IF ok THEN "ok" ELSE "failed" ]
          /\ loadIdx' = loadIdx + 1
          /\ IF loadIdx < Len(instruments)
             THEN /\ SetRegistries(r)
                  /\ UNCHANGED << pc, beatCounter, beatLoop, beatIndicators,
                                  masterVolume >>
             ELSE /\ masterVolume' = volumeSlider
                  /\ beatCounter' = 0
                  /\ beatLoop' = TRUE
                  /\ SetRegistries(setInitialButtonStates(r))
                  /\ beatIndicators' = updateBeatDisplay(beatIndicators, 1)
                  /\ pc' = "ready"
    /\ UNCHANGED << variant, currentBeat, transportState, transportPos,
                    contextState, pending, volumeSlider >>

\* A click on an instrument button.
toggleInstrument(n) ==
    /\ n \in DOMAIN instrumentButtons
    /\ SetRegistries(toggleInstrumentOn(Registries, n))
    /\ UNCHANGED << variant, pc, loadIdx, loadResult, currentBeat, beatCounter,
                    beatLoop, beatIndicators, transportState, transportPos,
                    contextState, pending, volumeSlider, masterVolume >>

\* The mousedown listener of the document.
Mousedown ==
    /\ contextState' = IF contextState = "suspended" THEN "resuming" ELSE contextState
    /\ UNCHANGED << variant, pc, loadIdx, loadResult, players, instrumentButtons,
                    instrumentStates, currentBeat, beatCounter, beatLoop,
                    beatIndicators, transportState, transportPos, pending,
                    volumeSlider, masterVolume >>

\* The audio context finishes resuming.
ContextResumed ==
    /\ contextState = "resuming"
    /\ contextState' = "running"
    /\ UNCHANGED << variant, pc, loadIdx, loadResult, players, instrumentButtons,
                    instrumentStates, currentBeat, beatCounter, beatLoop,
                    beatIndicators, transportState, transportPos, pending,
                    volumeSlider, masterVolume >>

\* The pause branch of togglePlayPause.
PauseBranch ==
    /\ transportState' = "paused"
    /\ players' = pausePlayers(players)
    /\ UNCHANGED << transportPos, contextState, pending >>

\* The start branch from Tone.Transport.start() on.
StartBranch ==
    /\ transportState' = "started"
    /\ players' = startPlayers(variant, players, instrumentStates, transportPos)
    /\ UNCHANGED transportPos

\* A click on the play/pause button.
togglePlayPause ==
    /\ IF transportState = "started"
       THEN PauseBranch
       ELSE IF variant = "async" /\ contextState # "running"
            THEN \* await Tone.start()
                 /\ pending < MaxPending
                 /\ pending' = pending + 1
                 /\ contextState' = "resuming"
                 /\ UNCHANGED << transportState, transportPos, players >>
            ELSE /\ StartBranch
                 /\ UNCHANGED << contextState, pending >>
    /\ UNCHANGED << variant, pc, loadIdx, loadResult, instrumentButtons,
                    instrumentStates, currentBeat, beatCounter, beatLoop,
                    beatIndicators, volumeSlider, masterVolume >>

\* An invocation suspended at `await Tone.start()` resumes.
togglePlayPauseResume ==
    /\ pending > 0
    /\ contextState = "running"
    /\ pending' = pending - 1
    /\ StartBranch
    /\ UNCHANGED << variant, pc, loadIdx, loadResult, instrumentButtons,
                    instrumentStates, currentBeat, beatCounter, beatLoop,
                    beatIndicators, contextState, volumeSlider,
                    masterVolume >>

\* One eighth note of the master clock; the beat callback fires when the
\* loop is registered.
Tick ==
    /\ transportState = "started"
    /\ contextState = "running"
    /\ transportPos' = (transportPos + 1) % totalBeats
    /\ IF beatLoop
       THEN /\ currentBeat' = beatOf(beatCounter)
            /\ beatIndicators' = updateBeatDisplay(beatIndicators, currentBeat')
            /\ beatCounter' = nextBeatCounter(beatCounter)
       ELSE UNCHANGED << currentBeat, beatIndicators, beatCounter >>
    /\ UNCHANGED << variant, pc, loadIdx, loadResult, players, instrumentButtons,
                    instrumentStates, beatLoop, transportState, contextState,
                    pending, volumeSlider, masterVolume >>

\* The user moves the volume slider; the 'input' listener exists once
\* initializeAudio has registered it.
setVolume(level) ==
    /\ volumeSlider' = level
    /\ masterVolume' = IF pc = "ready" THEN level ELSE masterVolume
    /\ UNCHANGED << variant, pc, loadIdx, loadResult, players, instrumentButtons,
                    instrumentStates, currentBeat, beatCounter, beatLoop,
                    beatIndicators, transportState, transportPos, contextState,
                    pending >>

Next ==
    \/ OnLoad
    \/ \E ok \in BOOLEAN : LoadSettled(ok)
    \/ \E n \in Names : toggleInstrument(n)
    \/ Mousedown
    \/ ContextResumed
    \/ togglePlayPause
    \/ togglePlayPauseResume
    \/ Tick
    \/ \E level \in VolumeLevels : setVolume(level)

Spec == Init /\ [][Next]_vars

\* ================================================================= claims
HasPlayer(n) == n \in DOMAIN players
IsPlaying(n) == HasPlayer(n) /\ players[n].isPlaying
LoadingDone == pc = "ready"

\* The transport goes from not started to started in this step.
Starts == transportState # "started" /\ transportState' = "started"
\* The transport goes from started to not started in this step.
Pauses == transportState = "started" /\ transportState' # "started"

\* C1: starting the transport when every instrument is loaded and unmuted
\* leaves every player reported as playing, in both variants.
C1_StartPlaysAll ==
    [][ ( /\ Starts
          /\ \A n \in Names : HasPlayer(n) /\ Truthy(instrumentStates, n) )
        => \A n \in Names : players'[n].isPlaying ]_vars

\* C2: pausing the transport leaves it not started ("paused") and no player
\* reported as playing, whatever preceded the pause.
C2_PauseStopsAll ==
    [][ Pauses =>
          /\ transportState' = "paused"
          /\ \A n \in DOMAIN players' : ~players'[n].isPlaying ]_vars

\* A player that was started after the clock had advanced is now paused.
C2_Witness ==
    /\ transportState = "paused"
    /\ \E n \in DOMAIN players :
          players[n].startPos > 0 /\ ~players[n].isPlaying

\* C3: once startup has completed, every instrument whose load succeeded has
\* an enabled button, and it is unmuted (state true, gain audible) unless the
\* user muted it (state false, gain silent).
C3_LoadedEnabledUnmuted ==
    LoadingDone =>
        \A n \in Names :
            loadResult[n] = "ok" =>
                /\ HasPlayer(n)
                /\ ~instrumentButtons[n].disabled
                /\ IF Truthy(instrumentStates, n)
                   THEN players[n].volume = Audible
                   ELSE players[n].volume = Silent

\* What a failed load leaves of an instrument.
FailedFrozen(n) ==
    /\ ~HasPlayer(n)
    /\ n \in DOMAIN instrumentStates /\ instrumentStates[n] = FALSE
    /\ instrumentButtons[n].disabled
    /\ "active" \notin instrumentButtons[n].classList

\* C4: an instrument whose load failed is muted, has no player and has a
\* disabled, inactive button in every state from the failure on, and no step
\* (toggle, play, pause or any other) changes that.
C4_FailedStaysDisabled ==
    /\ [](\A n \in Names : loadResult[n] = "failed" => FailedFrozen(n))
    /\ [][ \A n \in Names :
             loadResult[n] = "failed" =>
                 /\ loadResult'[n] = "failed"
                 /\ instrumentStates'[n] = instrumentStates[n]
                 /\ instrumentButtons'[n] = instrumentButtons[n]
                 /\ n \notin DOMAIN players' ]_vars

\* A failed instrument, clicked on or not, with the transport running after
\* startup while another instrument plays.
C4_Witness ==
    /\ LoadingDone
    /\ transportState = "started"
    /\ \E n \in Names : loadResult[n] = "failed"
    /\ \E n \in Names : IsPlaying(n)

\* The cyclic successor of a beat.
BeatSuccessor(b) == IF b = totalBeats THEN 1 ELSE b + 1

C6_ToggleTwice ==
    \A n \in DOMAIN players :
        ~instrumentButtons[n].disabled =>
            /\ toggleInstrumentOn(Registries, n) # Registries
            /\ toggleInstrumentOn(toggleInstrumentOn(Registries, n), n) = Registries

\* A loaded instrument with an enabled control that a toggle has muted.
C6_Witness ==
    \E n \in DOMAIN players :
        /\ ~instrumentButtons[n].disabled
        /\ instrumentStates[n] = FALSE
        /\ players[n].volume = Silent
        /\ "active" \notin instrumentButtons[n].classList

\* C7: whatever subset of the loads fails, startup completes with the beat
\* callback registered and every other instrument loaded, unmuted and with an
\* enabled control.
C7_FailureIsolated ==
    [][ (pc # "ready" /\ pc' = "ready") =>
          /\ beatLoop'
          /\ \A n \in Names :
                loadResult'[n] = "ok" =>
                    /\ n \in DOMAIN players'
                    /\ Truthy(instrumentStates', n)
                    /\ ~instrumentButtons'[n].disabled ]_vars

\* C8: until all loading has completed no step changes a mute flag, a gain,
\* a playing state or the transport state (loading only adds new entries).
C8_NoActionWhileLoading ==
    [][ pc' # "ready" =>
          /\ transportState' = transportState
          /\ \A n \in DOMAIN players : players'[n] = players[n]
          /\ \A n \in DOMAIN instrumentStates :
                instrumentStates'[n] = instrumentStates[n] ]_vars

\* The loop position of a playing player.
PlayerPos(p) == (transportPos + totalBeats - p.startPos) % totalBeats

\* C9: every playing player is at the loop position of the transport.
\* A player started from its beginning at transport position startPos is at
\* loop position transportPos - startPos.
C9_PhaseAligned ==
    \A n \in DOMAIN players :
        players[n].isPlaying => PlayerPos(players[n]) = transportPos

\* C10: when the transport starts, a player is started if and only if its
\* instrument is loaded, unmuted and not already playing.
C10_StartsExactlyUnmuted ==
    [][ Starts =>
          \A n \in Names :
              (n \in DOMAIN players' /\ players'[n].isPlaying /\ ~IsPlaying(n))
              <=> (HasPlayer(n) /\ Truthy(instrumentStates, n) /\ ~IsPlaying(n)) ]_vars

\* C11: in every reachable state every loaded instrument has a state flag,
\* its gain is audible exactly when the flag is true and its button carries
\* 'active' exactly when the flag is true; toggles that interleave with the
\* loading and with the window.onload pass included.
C11_GainFollowsState ==
    \A n \in DOMAIN players :
        /\ n \in DOMAIN instrumentStates
        /\ (players[n].volume = Audible) <=> instrumentStates[n]
        /\ (players[n].volume = Silent) <=> ~instrumentStates[n]
        /\ ("active" \in instrumentButtons[n].classList) <=> instrumentStates[n]

\* An instrument muted while another was loading, after the window.onload
\* pass has run over it.
C11_Witness ==
    /\ LoadingDone
    /\ \E n \in DOMAIN players :
          /\ ~instrumentStates[n]
          /\ instrumentButtons[n].disabled
          /\ players[n].volume = Silent

\* C12: a step that flips the mute flag of an instrument (toggleInstrument)
\* leaves every other instrument's flag, gain and button, every player's
\* playing state and loop start, the transport state and the beat counter
\* unchanged.
C12_ToggleFrame ==
    [][ \A n \in DOMAIN instrumentStates :
          instrumentStates'[n] # instrumentStates[n] =>
              /\ \A m \in Names \ {n} :
                    /\ m \in DOMAIN instrumentStates
                         => instrumentStates'[m] = instrumentStates[m]
                    /\ m \in DOMAIN players => players'[m] = players[m]
                    /\ instrumentButtons'[m] = instrumentButtons[m]
              /\ DOMAIN players' = DOMAIN players
              /\ DOMAIN instrumentStates' = DOMAIN instrumentStates
              /\ \A m \in DOMAIN players :
                    /\ players'[m].isPlaying = players[m].isPlaying
                    /\ players'[m].startPos = players[m].startPos
              /\ instrumentButtons'[n].disabled = instrumentButtons[n].disabled
              /\ transportState' = transportState
              /\ transportPos' = transportPos
              /\ currentBeat' = currentBeat
              /\ beatCounter' = beatCounter ]_vars

\* All the instruments play, one of them muted and silent, the rest audible.
C12_Witness ==
    /\ transportState = "started"
    /\ DOMAIN players = Names
    /\ \A n \in Names : players[n].isPlaying
    /\ \E n \in Names :
          /\ ~instrumentStates[n] /\ players[n].volume = Silent
          /\ \A m \in Names \ {n} :
                instrumentStates[m] /\ players[m].volume = Audible

\* The beat indicators that carry the 'current' class.
CurrentIndicators == { b \in DOMAIN beatIndicators : beatIndicators[b] }

\* C13: at most one beat indicator carries 'current' in every reachable
\* state, exactly one does once startup has completed, and from the first
\* beat callback on it is the indicator whose number is currentBeat.
C13_OneCurrentIndicator ==
    /\ Cardinality(CurrentIndicators) <= 1
    /\ LoadingDone => Cardinality(CurrentIndicators) = 1
    /\ currentBeat # 0 => CurrentIndicators = {currentBeat}

\* The callback has moved the mark from indicator 1 to indicator 2.
C13_Witness ==
    /\ currentBeat = 2
    /\ beatIndicators[2]
    /\ ~beatIndicators[1]

\* C14: currentBeat is an integer in 1..totalBeats in every reachable state,
\* the initial one included, and only the beat callback of a running
\* transport changes it.
C14_BeatInRange ==
    /\ [](currentBeat \in 1..totalBeats)
    /\ [][ currentBeat' # currentBeat =>
             /\ transportState = "started"
             /\ beatLoop
             /\ transportPos' # transportPos ]_vars

\* C15: while the transport is started, every instrument that is loaded and
\* unmuted is playing.
C15_RunningPlaysUnmuted ==
    transportState = "started" =>
        \A n \in DOMAIN players :
            Truthy(instrumentStates, n) => players[n].isPlaying

\* The transport is started in exactly one of the two states of a step.
Flips == (transportState = "started") # (transportState' = "started")

\* C16: every invocation of togglePlayPause flips the transport between
\* started and not started, whether it runs to its end within the click or
\* finishes after the await of Tone.start().
C16_EveryToggleFlips ==
    [][ /\ (togglePlayPause /\ pending' = pending) => Flips
        /\ togglePlayPauseResume => Flips ]_vars

\* C17: a disabled instrument button implies that the instrument's load failed.
C17_DisabledOnlyIfFailed ==
    \A n \in DOMAIN instrumentButtons :
        instrumentButtons[n].disabled => loadResult[n] = "failed"

====
